---- MODULE Spec2Model ----
(***************************************************************************)
(* xcomposite: the attribute resolution of Composition.__getattribute__,   *)
(* the propagation call Composition._propogate_call, bind / unbind, and    *)
(* the CompositeDecorator result table with the resolve reductions.        *)
(*                                                                         *)
(* One attribute name (the `item` of __getattribute__) is followed.  What  *)
(* each class defines under that name is drawn in Init and never changes:  *)
(* nothing, a non-callable value, an undecorated function or a function    *)
(* wrapped by a CompositeDecorator subclass.                               *)
(***************************************************************************)
EXTENDS Integers, Sequences, FiniteSets, TLC

\* Bounds of the model.
MaxComponents == 2
MaxLeaked == 1

VARIABLES
    _components,   \* Composition._components, per host: a reference to a list
    heap,          \* the list objects: reference -> the sequence it holds
    held,          \* the reference a caller got from components() and kept
    frames,        \* per thread: the propagation call it is in the middle of
    _target,       \* Composition._target, per host
    _RESULTS,      \* CompositeDecorator._RESULTS: identifier -> stored results
    defs,          \* what each class defines under the followed name
    dispatcher,    \* the partial(self._propogate_call, methods) the caller holds
    outcome        \* what the last operation returned or raised, with its log

vars ==
    <<_components, heap, held, frames, _target, _RESULTS, defs, dispatcher,
      outcome>>

----------------------------------------------------------------------------
\* Python values.  Every value is a record [k, v]; k is compared first, so
\* values of different kinds are never compared by their payload.

IntVal(n) == [k |-> "int", v |-> n]
StrVal(s) == [k |-> "str", v |-> s]
BoolVal(b) == [k |-> "bool", v |-> b]
\* A rational that is no integer (the result of a true division).
RatioVal(n, d) == [k |-> "ratio", v |-> <<n, d>>]
\* A list: the sequence of its elements, each a value.
ListVal(s) == [k |-> "list", v |-> s]
\* A dict: the sequence of its <<key, value>> pairs in insertion order.
DictVal(s) == [k |-> "dict", v |-> s]
ObjVal(o) == [k |-> "object", v |-> o]
\* A class passed as a value (the component_type of unbind).
TypeVal(t) == [k |-> "type", v |-> t]
\* A str built by formatting: the sequence of its pieces, whose concatenation
\* is the string.
TextVal(pieces) == [k |-> "text", v |-> pieces]
\* A reference to a list object.
ListRef(n) == [k |-> "listref", v |-> n]
PropVal(c) == [k |-> "property", v |-> c]
None == [k |-> "None", v |-> 0]
Ignore == [k |-> "Ignore", v |-> 0]
Raise(e) == [k |-> "raise", v |-> e]
\* A CompositeDecorator instance: the class attribute that wraps the function
\* defined in class c.  It is not a descriptor, so it is never bound.
DecoratorObj(c) == [k |-> "decorator", v |-> <<c, "-">>]
\* A bound method: the undecorated function of class c bound to object o.
BoundMethod(c, o) == [k |-> "method", v |-> <<c, o>>]

IsRaise(x) == x.k = "raise"

----------------------------------------------------------------------------
\* The classes and objects of the test fixture, tests/classes.py.

\* The hosts that were constructed.
Hosts == DOMAIN _components
Objects == {"H", "G", "A", "B"}
Classes == {"DecoratorBase", "DecoratorTesterA", "DecoratorTesterB"}
Types == Classes \cup {"Composition", "object"}

ClassOf(o) ==
    CASE o \in {"H", "G"} -> "DecoratorBase"
      [] o = "A" -> "DecoratorTesterA"
      [] o = "B" -> "DecoratorTesterB"

\* The method resolution order of a class.
Mro(c) ==
    CASE c = "DecoratorBase" -> <<"DecoratorBase", "Composition", "object">>
      [] c = "DecoratorTesterA" ->
            <<"DecoratorTesterA", "DecoratorBase", "Composition", "object">>
      [] c = "DecoratorTesterB" -> <<"DecoratorTesterB", "Composition", "object">>
      [] c = "Composition" -> <<"Composition", "object">>
      [] OTHER -> <<"object">>

\* A faulty isinstance: the class itself only, no subclass.
isinstanceExact(o, t) == ClassOf(o) = t

isinstance(o, t) == \E i \in 1..Len(Mro(ClassOf(o))) : Mro(ClassOf(o))[i] = t

----------------------------------------------------------------------------
\* The CompositeDecorator subclasses of decorators.py.

Policies ==
    {"Extend", "Append", "AppendUnique", "Update", "First", "Last",
     "UpdateDict", "Min", "Max", "Sum", "Average", "Range", "AbsoluteTrue",
     "AbsoluteFalse", "AnyFalse", "AnyTrue"}

\* What a class defines under the followed name.
\*   kind    "absent" | "value" | "plain" | "decorated"
\*   policy  the CompositeDecorator subclass wrapping the function
\*   star    FALSE: def item(self)   TRUE: def item(self, *args, **kwargs)
\*   ret     what the function returns (or the value of a non-callable)
Absent == [kind |-> "absent", policy |-> "-", star |-> FALSE, ret |-> None]
Value(c) == [kind |-> "value", policy |-> "-", star |-> FALSE, ret |-> PropVal(c)]
Plain(star, ret) == [kind |-> "plain", policy |-> "-", star |-> star, ret |-> ret]
Decorated(p, star, ret) ==
    [kind |-> "decorated", policy |-> p, star |-> star, ret |-> ret]

----------------------------------------------------------------------------
\* object.__getattribute__(o, item): the class of o's method resolution order
\* that defines the name, "-" when none does.
DefiningClass(o) ==
    LET mro == Mro(ClassOf(o))
        hits == {i \in 1..Len(mro) :
                    mro[i] \in Classes /\ defs[mro[i]].kind # "absent"}
    IN  IF hits = {} THEN "-"
        ELSE mro[CHOOSE i \in hits : \A j \in hits : i <= j]

object__getattribute__(o) ==
    LET c == DefiningClass(o)
    IN  IF c = "-" THEN Raise("AttributeError")
        ELSE CASE defs[c].kind = "value" -> defs[c].ret
               [] defs[c].kind = "plain" -> BoundMethod(c, o)
               [] defs[c].kind = "decorated" -> DecoratorObj(c)

callable(x) == x.k \in {"method", "decorator", "partial"}
IsCompositeDecorator(x) == x.k = "decorator"

\* partial(self._propogate_call, methods_to_composite), core.py:133
Partial(h, methods) == [k |-> "partial", v |-> <<h, methods>>]

\* A faulty Composites: the components come before the host.
CompositesHostLast(h) == heap[_components[h]] \o <<_target[h]>>

\* A faulty Composites: the components of the components follow.
CompositesDeep(h) ==
    LET RECURSIVE Inner(_)
        Inner(list) ==
            IF list = <<>> THEN <<>>
            ELSE (IF Head(list) \in Hosts THEN heap[_components[Head(list)]]
                  ELSE <<>>) \o Inner(Tail(list))
    IN  <<_target[h]>> \o heap[_components[h]] \o Inner(heap[_components[h]])

\* composites = [self._target]; composites.extend(self._components)
Composites(h) == <<_target[h]>> \o heap[_components[h]]

\* The loop of core.py:98-123 from candidate i on.  found: a non-callable was
\* met and is returned at once; consulted: the candidates asked so far.
RECURSIVE ScanComposites(_, _, _, _)
ScanComposites(composites, i, methods, owners) ==
    IF i > Len(composites)
    THEN [found |-> FALSE, value |-> None, methods |-> methods,
          owners |-> owners, consulted |-> composites]
    ELSE LET matched_item == object__getattribute__(composites[i])
         IN  IF IsRaise(matched_item)
             THEN ScanComposites(composites, i + 1, methods, owners)
             ELSE IF callable(matched_item)
             THEN ScanComposites(composites, i + 1,
                                 Append(methods, matched_item),
                                 Append(owners, composites[i]))
             ELSE [found |-> TRUE, value |-> matched_item, methods |-> methods,
                   owners |-> owners,
                   consulted |-> SubSeq(composites, 1, i)]

\* What an access answers.
\*   value      what the access returns, or Raise("AttributeError")
\*   consulted  the candidates of the composites list that were asked
\*   owners     for each collected method, the candidate it was found on
Answer(value, methods, owners, consulted) ==
    [value |-> value, methods |-> methods, owners |-> owners,
     consulted |-> consulted]

\* A faulty NotFound: "we simply return None", as the comment of core.py:125
\* puts it, in place of the raise.
NotFoundNone(consulted) == Answer(None, <<>>, <<>>, consulted)

\* raise AttributeError('Could not find %s' % item), core.py:127-128
NotFound(consulted) == Answer(Raise("AttributeError"), <<>>, <<>>, consulted)

\* A faulty Composed: a non-callable the loop met is answered only when no
\* method was collected before it.
ComposedMethodsFirst(h, scan) ==
    IF scan.methods # <<>>
    THEN Answer(Partial(h, scan.methods), scan.methods, scan.owners,
                scan.consulted)
    ELSE IF scan.found
    THEN Answer(scan.value, scan.methods, scan.owners, scan.consulted)
    ELSE Answer(Raise("AttributeError"), <<>>, <<>>, scan.consulted)

\* What __getattribute__ answers once the loop is over, core.py:118-136: the
\* non-callable the loop returned, the error, or the propagation call.
Composed(h, scan) ==
    IF scan.found
    THEN Answer(scan.value, scan.methods, scan.owners, scan.consulted)
    ELSE IF scan.methods = <<>>
    THEN NotFound(scan.consulted)
    ELSE Answer(Partial(h, scan.methods), scan.methods, scan.owners,
                scan.consulted)

\* A faulty Lookup: the propagation call a caller still holds is answered
\* again in place of a new scan.
LookupCached(h) ==
    IF dispatcher.live /\ dispatcher.callee.k = "partial"
    THEN Answer(dispatcher.callee, dispatcher.callee.v[2], dispatcher.owners,
                dispatcher.consulted)
    ELSE LET scan == ScanComposites(<<_target[h]>> \o heap[_components[h]], 1,
                                    <<>>, <<>>)
         IN  IF scan.found
             THEN Answer(scan.value, scan.methods, scan.owners, scan.consulted)
             ELSE IF scan.methods = <<>>
             THEN Answer(Raise("AttributeError"), <<>>, <<>>, scan.consulted)
             ELSE Answer(Partial(h, scan.methods), scan.methods, scan.owners,
                         scan.consulted)

\* The composite part of __getattribute__, core.py:90-136.
Lookup(h) == Composed(h, ScanComposites(Composites(h), 1, <<>>, <<>>))

\* A faulty __getattribute__: the host's own attribute is returned as it is
\* only when it is not callable.
__getattribute__OfCallables(h) ==
    LET matched_item == object__getattribute__(h)
    IN  IF ~IsRaise(matched_item) /\ ~callable(matched_item)
        THEN Answer(matched_item, <<>>, <<>>, <<>>)
        ELSE Lookup(h)

\* Composition.__getattribute__(self, item), core.py:59-136.
__getattribute__(h) ==
    LET matched_item == object__getattribute__(h)
    IN  IF ~IsRaise(matched_item) /\ ~IsCompositeDecorator(matched_item)
        THEN Answer(matched_item, <<>>, <<>>, <<>>)
        ELSE Lookup(h)

----------------------------------------------------------------------------
\* The reductions: <Policy>.resolve(items) of decorators.py.  items is the
\* sequence stored for the call; each operator gives the value returned or
\* Raise(e) for the exception the Python expression raises.

Kinds(items) == {items[i].k : i \in 1..Len(items)}

\* bool(x)
Truthy(x) ==
    CASE x.k = "int" -> x.v # 0
      [] x.k = "bool" -> x.v
      [] x.k \in {"list", "dict"} -> x.v # <<>>
      [] x.k = "None" -> FALSE
      [] OTHER -> TRUE

\* The order of the one-character strings the fixtures return.
StrRank(s) ==
    CASE s = "A" -> 1 [] s = "B" -> 2 [] s = "X" -> 3 [] s = "a" -> 4
      [] s = "b" -> 5 [] s = "x" -> 6 [] s = "y" -> 7
      [] OTHER -> 8

\* x < y for two values of one orderable kind (int, str, list of these).
RECURSIVE Less(_, _)
Less(x, y) ==
    CASE x.k = "int" -> x.v < y.v
      [] x.k = "str" -> StrRank(x.v) < StrRank(y.v)
      [] x.k = "list" ->
            IF x.v = <<>> THEN y.v # <<>>
            ELSE IF y.v = <<>> THEN FALSE
            ELSE IF Head(x.v) = Head(y.v)
                 THEN Less(ListVal(Tail(x.v)), ListVal(Tail(y.v)))
                 ELSE Less(Head(x.v), Head(y.v))
      [] OTHER -> FALSE

\* Whether every comparison min()/max() makes over items is supported.
Orderable(items) ==
    \/ Len(items) = 1
    \/ /\ Cardinality(Kinds(items)) = 1
       /\ Kinds(items) \subseteq {"int", "str"}
    \/ /\ Kinds(items) = {"list"}
       /\ \A i \in 1..Len(items) :
            \A j \in 1..Len(items[i].v) : items[i].v[j].k = "str"

\* min(items): the first of the smallest items.
PyMin(items) ==
    IF items = <<>> THEN Raise("ValueError")
    ELSE IF ~Orderable(items) THEN Raise("TypeError")
    ELSE items[CHOOSE i \in 1..Len(items) :
                 /\ \A j \in 1..Len(items) : ~Less(items[j], items[i])
                 /\ \A j \in 1..(i - 1) : Less(items[i], items[j])]

\* max(items): the first of the largest items.
PyMax(items) ==
    IF items = <<>> THEN Raise("ValueError")
    ELSE IF ~Orderable(items) THEN Raise("TypeError")
    ELSE items[CHOOSE i \in 1..Len(items) :
                 /\ \A j \in 1..Len(items) : ~Less(items[i], items[j])
                 /\ \A j \in 1..(i - 1) : Less(items[j], items[i])]

RECURSIVE SumInts(_)
SumInts(items) ==
    IF items = <<>> THEN 0 ELSE Head(items).v + SumInts(Tail(items))

\* sum(items): 0 + items[0] + ... ; only numbers add to 0.
PySum(items) ==
    IF Kinds(items) \subseteq {"int"} THEN IntVal(SumInts(items))
    ELSE Raise("TypeError")

RECURSIVE Gcd(_, _)
Gcd(a, b) == IF b = 0 THEN a ELSE Gcd(b, a % b)
Abs(n) == IF n < 0 THEN -n ELSE n

\* n / d, the true division of two integers, d > 0.
TrueDiv(n, d) ==
    IF n % d = 0 THEN IntVal(n \div d)
    ELSE LET g == Gcd(Abs(n), d) IN RatioVal(n \div g, d \div g)

\* The keys of a dict, as list.extend and dict.update iterate it.
DictKeys(pairs) == [i \in 1..Len(pairs) |-> pairs[i][1]]

RECURSIVE ExtendAll(_, _)
ExtendAll(items, output) ==
    IF items = <<>> THEN ListVal(output)
    ELSE CASE Head(items).k = "list" ->
                ExtendAll(Tail(items), output \o Head(items).v)
           [] Head(items).k = "dict" ->
                ExtendAll(Tail(items), output \o DictKeys(Head(items).v))
           [] Head(items).k = "str" ->
                ExtendAll(Tail(items), Append(output, Head(items)))
           [] OTHER -> Raise("TypeError")

\* output[key] = value on the ordered pairs of a dict.
\* A faulty DictSet: a key already set keeps its value.
DictSetDefault(pairs, key, value) ==
    IF \E i \in 1..Len(pairs) : pairs[i][1] = key
    THEN pairs
    ELSE Append(pairs, <<key, value>>)

DictSet(pairs, key, value) ==
    IF \E i \in 1..Len(pairs) : pairs[i][1] = key
    THEN [i \in 1..Len(pairs) |->
            IF pairs[i][1] = key THEN <<key, value>> ELSE pairs[i]]
    ELSE Append(pairs, <<key, value>>)

RECURSIVE DictUpdate(_, _)
DictUpdate(output, pairs) ==
    IF pairs = <<>> THEN output
    ELSE DictUpdate(DictSet(output, Head(pairs)[1], Head(pairs)[2]), Tail(pairs))

RECURSIVE UpdateAll(_, _)
UpdateAll(items, output) ==
    IF items = <<>> THEN DictVal(output)
    ELSE CASE Head(items).k = "dict" ->
                UpdateAll(Tail(items), DictUpdate(output, Head(items).v))
           [] Head(items).k = "list" /\ Head(items).v = <<>> ->
                UpdateAll(Tail(items), output)
           [] Head(items).k = "list" /\ Head(items).v[1].k = "str" ->
                Raise("ValueError")
           [] Head(items).k = "str" -> Raise("ValueError")
           [] OTHER -> Raise("TypeError")

\* The orders list(set(items)) may give: every arrangement of the distinct
\* items (the iteration order of a set is not defined).
SetOrders(items) ==
    LET S == {items[i] : i \in 1..Len(items)}
        n == Cardinality(S)
    IN  {f \in [1..n -> S] : \A i, j \in 1..n : i # j => f[i] # f[j]}

\* A faulty Extend.resolve: an element already in the output is not added.
Extend_resolveUnique(items) ==
    LET RECURSIVE Unique(_, _)
        Unique(elements, output) ==
            IF elements = <<>> THEN output
            ELSE Unique(Tail(elements),
                        IF \E i \in 1..Len(output) : output[i] = Head(elements)
                        THEN output ELSE Append(output, Head(elements)))
        all == ExtendAll(items, <<>>)
    IN  IF IsRaise(all) THEN all ELSE ListVal(Unique(all.v, <<>>))

Extend_resolve(items) == ExtendAll(items, <<>>)
\* A faulty Append.resolve: a None result is dropped.
Append_resolveValues(items) ==
    LET HasValue(item) == item # None IN ListVal(SelectSeq(items, HasValue))

Append_resolve(items) == ListVal(items)
AppendUnique_resolve(items) ==
    IF Kinds(items) \cap {"list", "dict"} # {} THEN {Raise("TypeError")}
    ELSE {ListVal(f) : f \in SetOrders(items)}
Update_resolve(items) == UpdateAll(items, <<>>)
\* A faulty First.resolve: items[-1].
First_resolveLast(items) == IF items # <<>> THEN items[Len(items)] ELSE None

First_resolve(items) == IF items # <<>> THEN items[1] ELSE None
Last_resolve(items) == IF items # <<>> THEN items[Len(items)] ELSE None
UpdateDict_resolve(items) == UpdateAll(items, <<>>)
Min_resolve(items) == PyMin(items)
Max_resolve(items) == PyMax(items)
Sum_resolve(items) == PySum(items)
\* A faulty Average.resolve: the floor division sum_of_items // len(items).
Average_resolveFloor(items) ==
    IF items = <<>> THEN None
    ELSE LET sum_of_items == PySum(items)
         IN  IF IsRaise(sum_of_items) THEN sum_of_items
             ELSE IntVal(sum_of_items.v \div Len(items))

Average_resolve(items) ==
    IF items = <<>> THEN None
    ELSE LET sum_of_items == PySum(items)
         IN  IF IsRaise(sum_of_items) THEN sum_of_items
             ELSE IF sum_of_items.v = 0 THEN sum_of_items
             ELSE TrueDiv(sum_of_items.v, Len(items))
\* A faulty Range.resolve: 0 when there is no result.
Range_resolveOrZero(items) ==
    IF items = <<>> THEN IntVal(0)
    ELSE IF ~Orderable(items) \/ Kinds(items) # {"int"} THEN Raise("TypeError")
    ELSE IntVal(PyMax(items).v - PyMin(items).v)

Range_resolve(items) ==
    IF items = <<>> THEN Raise("ValueError")
    ELSE IF ~Orderable(items) \/ Kinds(items) # {"int"} THEN Raise("TypeError")
    ELSE IntVal(PyMax(items).v - PyMin(items).v)
AbsoluteTrue_resolve(items) ==
    BoolVal(\A i \in 1..Len(items) : Truthy(items[i]))
AbsoluteFalse_resolve(items) ==
    BoolVal(\E i \in 1..Len(items) : Truthy(items[i]))
AnyFalse_resolve(items) ==
    BoolVal(\A i \in 1..Len(items) : Truthy(items[i]))
AnyTrue_resolve(items) ==
    BoolVal(\E i \in 1..Len(items) : Truthy(items[i]))

\* decorator.resolve(items) for a decorator of class `policy`: the set of the
\* values the call may return (one, but for AppendUnique).
resolve(policy, items) ==
    CASE policy = "Extend" -> {Extend_resolve(items)}
      [] policy = "Append" -> {Append_resolve(items)}
      [] policy = "AppendUnique" -> AppendUnique_resolve(items)
      [] policy = "Update" -> {Update_resolve(items)}
      [] policy = "First" -> {First_resolve(items)}
      [] policy = "Last" -> {Last_resolve(items)}
      [] policy = "UpdateDict" -> {UpdateDict_resolve(items)}
      [] policy = "Min" -> {Min_resolve(items)}
      [] policy = "Max" -> {Max_resolve(items)}
      [] policy = "Sum" -> {Sum_resolve(items)}
      [] policy = "Average" -> {Average_resolve(items)}
      [] policy = "Range" -> {Range_resolve(items)}
      [] policy = "AbsoluteTrue" -> {AbsoluteTrue_resolve(items)}
      [] policy = "AbsoluteFalse" -> {AbsoluteFalse_resolve(items)}
      [] policy = "AnyFalse" -> {AnyFalse_resolve(items)}
      [] policy = "AnyTrue" -> {AnyTrue_resolve(items)}

----------------------------------------------------------------------------
\* Calling a function.

\* The function that class c defines under the followed name, called with the
\* positional arguments pos (self first) and the keyword arguments kw:
\* def item(self) takes exactly one positional argument and no keyword.
CallFunction(c, pos, kw) ==
    IF defs[c].star \/ (Len(pos) = 1 /\ kw = {})
    THEN defs[c].ret
    ELSE Raise("TypeError")

\* CompositeDecorator.__call__(self, *args, **kwargs), decorators.py:38-43:
\* the positional arguments it hands to self._method.
__call__(self, args) == <<self>> \o args

\* method(self, *args, **kwargs) of core.py:209-213 for one collected method:
\* the positional arguments the underlying function receives.
Received(method, host, args) ==
    IF method.k = "decorator"
    THEN __call__(method, <<ObjVal(host)>> \o args)
    ELSE <<ObjVal(method.v[2])>> \o (<<ObjVal(host)>> \o args)

\* A faulty Keep: every result is stored, Ignore too.
KeepAll(stored, result) == Append(stored, result)

\* core.py:215-227: a result that is Ignore is skipped, any other is handed to
\* decorator.store.
Keep(stored, result) ==
    IF result = Ignore THEN stored ELSE Append(stored, result)

\* A faulty RunMethods: the loop ends as soon as one result is stored.
RECURSIVE RunMethodsUntilStored(_, _, _, _, _, _, _)
RunMethodsUntilStored(methods, i, host, args, kwargs, stored, invoked) ==
    IF i > Len(methods) \/ stored # <<>>
    THEN [stored |-> stored, invoked |-> invoked, raised |-> None]
    ELSE LET pos == Received(methods[i], host, args)
             result == CallFunction(methods[i].v[1], pos, kwargs)
             entry == [index |-> i, method |-> methods[i], pos |-> pos,
                       kw |-> kwargs, result |-> result]
         IN  IF IsRaise(result)
             THEN [stored |-> stored, invoked |-> Append(invoked, entry),
                   raised |-> result]
             ELSE RunMethodsUntilStored(methods, i + 1, host, args, kwargs,
                                        Keep(stored, result),
                                        Append(invoked, entry))

\* The loop of core.py:206-227 from method i on.  stored: what decorator.store
\* appended under the identifier; invoked: one entry per method called, in
\* call order; raised: the exception that ended the loop, None if none did.
RECURSIVE RunMethods(_, _, _, _, _, _, _)
RunMethods(methods, i, host, args, kwargs, stored, invoked) ==
    IF i > Len(methods)
    THEN [stored |-> stored, invoked |-> invoked, raised |-> None]
    ELSE LET pos == Received(methods[i], host, args)
             result == CallFunction(methods[i].v[1], pos, kwargs)
             entry == [index |-> i, method |-> methods[i], pos |-> pos,
                       kw |-> kwargs, result |-> result]
         IN  IF IsRaise(result)
             THEN [stored |-> stored, invoked |-> Append(invoked, entry),
                   raised |-> result]
             ELSE RunMethods(methods, i + 1, host, args, kwargs,
                             Keep(stored, result), Append(invoked, entry))

\* A faulty NewIdentifier: one key for all the calls.
NewIdentifierShared(table) == 1

\* CompositeDecorator.start(): str(uuid.uuid4()), a key no buffer is stored
\* under; the least unused number stands for it.
NewIdentifier(table) ==
    CHOOSE n \in 1..(Cardinality(DOMAIN table) + 1) : n \notin DOMAIN table

start(table, identifier) ==
    [n \in DOMAIN table \cup {identifier} |->
        IF n = identifier THEN <<>> ELSE table[n]]
store(table, identifier, items) == [table EXCEPT ![identifier] = @ \o items]
results(table, identifier) == table[identifier]
\* A faulty clear: the buffer stays in the table.
clearNothing(table, identifier) == table

clear(table, identifier) ==
    [n \in DOMAIN table \ {identifier} |-> table[n]]

\* The log of an operation that called no method.
NoLog ==
    [methods |-> <<>>, owners |-> <<>>, consulted |-> <<>>, args |-> <<>>,
     kwargs |-> {}, invoked |-> <<>>, passed |-> <<>>, resolved |-> FALSE,
     policy |-> "-", opened |-> FALSE, before |-> <<>>, repeat |-> FALSE,
     returned |-> <<>>]

\* A faulty decorated_types: every method counts as decorated.
decorated_typesOfAll(methods) == methods

\* core.py:182-186: the methods that are CompositeDecorator instances (the code
\* keeps their types, of which it uses only whether there is any).
decorated_types(methods) == SelectSeq(methods, IsCompositeDecorator)

\* Composition._propogate_call(self, methods, *args, **kwargs), core.py:165-240:
\* the set of its possible endings.  value is the value returned or the
\* exception raised, table the result table it leaves.
_propogate_call(self, methods, args, kwargs, table) ==
    LET decorated == decorated_types(methods)
        decorator == methods[1]
        identifier == NewIdentifier(table)
        run == RunMethods(methods, 1, self, args, kwargs, <<>>, <<>>)
        stored == store(start(table, identifier), identifier, run.stored)
        policy == defs[decorator.v[1]].policy
        log == [NoLog EXCEPT !.methods = methods, !.args = args,
                             !.kwargs = kwargs]
    IN  IF decorated = <<>>
        THEN {[value |-> Raise("Exception"), table |-> table, log |-> log]}
        ELSE IF ~IsCompositeDecorator(decorator)
        THEN {[value |-> Raise("AttributeError"), table |-> table, log |-> log]}
        ELSE IF IsRaise(run.raised)
        THEN {[value |-> run.raised, table |-> stored,
               log |-> [log EXCEPT !.invoked = run.invoked, !.opened = TRUE,
                                   !.policy = policy]]}
        ELSE {[value |-> resolved_results,
               table |-> IF IsRaise(resolved_results) THEN stored
                         ELSE clear(stored, identifier),
               log |-> [log EXCEPT !.invoked = run.invoked, !.opened = TRUE,
                                   !.passed = results(stored, identifier),
                                   !.resolved = TRUE, !.policy = policy]] :
               resolved_results \in resolve(policy, results(stored, identifier))}

\* A faulty bind: a component that is bound already is not bound again.
bindOnce(components, component) ==
    IF \E i \in 1..Len(components) : components[i] = component
    THEN components
    ELSE Append(components, component)

\* Composition.bind(self, component), core.py:252-263: the new content of the
\* list, which is appended to in place.
bind(components, component) == Append(components, component)

\* list.remove(x): drops the first element equal to x.
RECURSIVE remove(_, _)
remove(list, x) ==
    IF list = <<>> THEN <<>>
    ELSE IF Head(list) = x THEN Tail(list)
    ELSE <<Head(list)>> \o remove(Tail(list), x)

\* A faulty unbind: the loop runs over the list it removes from, not over a
\* snapshot, so the element after a removed one is skipped.
RECURSIVE unbindLive(_, _, _, _)
unbindLive(snapshot, i, components, component_type) ==
    IF i > Len(components) THEN components
    ELSE IF isinstance(components[i], component_type)
    THEN unbindLive(snapshot, i + 1, remove(components, components[i]),
                    component_type)
    ELSE unbindLive(snapshot, i + 1, components, component_type)

\* Composition.unbind(self, component_type), core.py:266-277: the loop over the
\* snapshot self._components[:] from position i on.
RECURSIVE unbind(_, _, _, _)
unbind(snapshot, i, components, component_type) ==
    IF i > Len(snapshot) THEN components
    ELSE IF isinstance(snapshot[i], component_type)
    THEN unbind(snapshot, i + 1, remove(components, snapshot[i]), component_type)
    ELSE unbind(snapshot, i + 1, components, component_type)

\* Composition.components(self), core.py:243-249: the list object itself.
components(h) == _components[h]

\* The sequence the list of h holds at this moment.
Bound(h) == heap[components(h)]

----------------------------------------------------------------------------
\* The programs the model runs: what the classes define.

\* What the function of class c returns when it contributes: the numbers and
\* dicts of tests/classes.py, the list of its host and the lists of the classes
\* A and B of the package docstring.
IntRet(c) ==
    CASE c = "DecoratorBase" -> IntVal(1)
      [] c = "DecoratorTesterA" -> IntVal(1)
      [] c = "DecoratorTesterB" -> IntVal(2)

ListRet(c) ==
    CASE c = "DecoratorBase" -> ListVal(<<StrVal("A")>>)
      [] c = "DecoratorTesterA" -> ListVal(<<StrVal("a"), StrVal("b")>>)
      [] c = "DecoratorTesterB" -> ListVal(<<StrVal("x"), StrVal("y")>>)

DictRet(c) ==
    CASE c = "DecoratorBase" -> DictVal(<<<<StrVal("foo"), IntVal(1)>>>>)
      [] c = "DecoratorTesterA" -> DictVal(<<<<StrVal("foo"), IntVal(1)>>>>)
      [] c = "DecoratorTesterB" -> DictVal(<<<<StrVal("bar"), IntVal(1)>>>>)

RetOf(c, p) ==
    CASE p = "Extend" -> ListRet(c)
      [] p \in {"Update", "UpdateDict"} -> DictRet(c)
      [] OTHER -> IntRet(c)

\* Every definition class c may give the name in a program whose decorated
\* functions are declared with policy p: nothing, a non-callable value, or a
\* function, undecorated or decorated, declared def item(self) or
\* def item(self, *args, **kwargs) and returning the value of the class.
DescOf(c, p) ==
    {Absent, Value(c)}
    \cup {Plain(star, RetOf(c, p)) : star \in BOOLEAN}
    \cup {Decorated(p, star, RetOf(c, p)) : star \in BOOLEAN}

\* The programs that try one policy p on functions that take any arguments:
\* the host declares the method with p (or leaves it undecorated),
\* DecoratorTesterA overrides it undecorated as in tests/classes.py (or
\* declares it with p), DecoratorTesterB declares it with p, and each function
\* returns its value or Ignore.
PolicyDescOf(c, p) ==
    CASE c = "DecoratorBase" ->
            {Decorated(p, TRUE, Ignore), Decorated(p, TRUE, RetOf(c, p)),
             Plain(TRUE, RetOf(c, p))}
      [] c = "DecoratorTesterA" ->
            {Plain(TRUE, Ignore), Plain(TRUE, RetOf(c, p)),
             Decorated(p, TRUE, RetOf(c, p))}
      [] c = "DecoratorTesterB" ->
            {Decorated(p, TRUE, Ignore), Decorated(p, TRUE, RetOf(c, p))}

\* The wrapper of the package docstring (__init__.py:63-106): the host declares
\* the method Extend and returns Ignore, the bound classes define it
\* undecorated and return their lists.
WrapperDescOf(c) ==
    IF c = "DecoratorBase"
    THEN {Decorated("Extend", star, Ignore) : star \in BOOLEAN}
    ELSE {Plain(star, ListRet(c)) : star \in BOOLEAN}

\* The arguments a caller passes: none, or one positional and one keyword.
NoArgs == [args |-> <<>>, kwargs |-> {}]
ArgChoices ==
    {NoArgs, [args |-> <<IntVal(7)>>, kwargs |-> {<<"k", IntVal(8)>>}]}

NoDispatcher ==
    [live |-> FALSE, callee |-> None, owners |-> <<>>, consulted |-> <<>>]

\* The two callers whose propagation calls may overlap.
Threads == {1, 2}

\* A thread that is in no propagation call.
Idle ==
    [pc |-> "idle", host |-> "-", identifier |-> 0, i |-> 0, value |-> None,
     log |-> NoLog]

\* No reference to a list is kept by a caller.
NoReference == [live |-> FALSE, host |-> "-", list |-> 0]

\* self._components = list(), core.py:55: the list object the constructor of h
\* creates.
Allocated(h) == CASE h = "H" -> 1 [] h = "G" -> 2

Outcome(op, host, value, log) ==
    [op |-> op, host |-> host, value |-> value, log |-> log]

\* The state after the construction of the hosts `hosts`, Composition.__init__
\* (core.py:53-56) called without a target as every construction of the
\* repository does, running the program `program`; no result buffer is open.
Constructed(program, hosts) ==
    /\ _components = [h \in hosts |-> Allocated(h)]
    /\ heap = [n \in {Allocated(h) : h \in hosts} |-> <<>>]
    /\ held = NoReference
    /\ frames = [t \in Threads |-> Idle]
    /\ _target = [h \in hosts |-> h]
    /\ _RESULTS = [n \in {} |-> <<>>]
    /\ defs = program
    /\ dispatcher = NoDispatcher
    /\ outcome = Outcome("init", "-", None, NoLog)

Program(d1, d2, d3) ==
    [c \in Classes |->
        CASE c = "DecoratorBase" -> d1
          [] c = "DecoratorTesterA" -> d2
          [] c = "DecoratorTesterB" -> d3]

\* Every program over the classes whose decorated functions are declared Sum,
\* and the wrapper programs.
Init ==
    \/ \E d1 \in DescOf("DecoratorBase", "Sum"),
          d2 \in DescOf("DecoratorTesterA", "Sum"),
          d3 \in DescOf("DecoratorTesterB", "Sum") :
            Constructed(Program(d1, d2, d3), {"H"})
    \/ \E d1 \in WrapperDescOf("DecoratorBase"),
          d2 \in WrapperDescOf("DecoratorTesterA"),
          d3 \in WrapperDescOf("DecoratorTesterB") :
            Constructed(Program(d1, d2, d3), {"H"})

\* Every policy, on functions that take any arguments.
InitPolicies ==
    \E p \in Policies :
    \E d1 \in PolicyDescOf("DecoratorBase", p),
       d2 \in PolicyDescOf("DecoratorTesterA", p),
       d3 \in PolicyDescOf("DecoratorTesterB", p) :
        Constructed(Program(d1, d2, d3), {"H"})

\* value = host.item: the attribute access, core.py:59-136.  The caller keeps
\* what it got when that is callable.
Access(h) ==
    /\ LET got == __getattribute__(h)
       IN  /\ outcome' = Outcome("access", h, got.value,
                            [NoLog EXCEPT !.methods = got.methods,
                                          !.owners = got.owners,
                                          !.consulted = got.consulted])
           /\ dispatcher' =
                IF got.value.k \in {"partial", "method"}
                THEN [live |-> TRUE, callee |-> got.value,
                      owners |-> got.owners, consulted |-> got.consulted]
                ELSE NoDispatcher
    /\ UNCHANGED <<_components, heap, held, frames, _target, _RESULTS, defs>>

\* A faulty Call: the dispatcher collects the methods again when it is called.
CallFresh(a) ==
    /\ dispatcher.live
    /\ dispatcher.callee.k = "partial"
    /\ Cardinality(DOMAIN _RESULTS) < MaxLeaked
    /\ \E end \in _propogate_call(dispatcher.callee.v[1],
                        __getattribute__(dispatcher.callee.v[1]).methods,
                        a.args, a.kwargs, _RESULTS) :
          /\ outcome' = Outcome("call", dispatcher.callee.v[1], end.value,
                                end.log)
          /\ _RESULTS' = end.table
    /\ UNCHANGED <<_components, heap, held, frames, _target, defs, dispatcher>>

\* value(*args, **kwargs) on the dispatcher an access returned, core.py:165-240.
\* log.repeat records that the caller's previous operation was a call of the
\* same dispatcher with the same arguments.
Call(a) ==
    /\ dispatcher.live
    /\ dispatcher.callee.k = "partial"
    /\ Cardinality(DOMAIN _RESULTS) < MaxLeaked
    /\ \E end \in _propogate_call(dispatcher.callee.v[1], dispatcher.callee.v[2],
                                  a.args, a.kwargs, _RESULTS) :
          /\ outcome' = Outcome("call", dispatcher.callee.v[1], end.value,
                                [end.log EXCEPT
                                    !.owners = dispatcher.owners,
                                    !.consulted = dispatcher.consulted,
                                    !.repeat =
                                        /\ outcome.op = "call"
                                        /\ outcome.log.args = a.args
                                        /\ outcome.log.kwargs = a.kwargs])
          /\ _RESULTS' = end.table
    /\ UNCHANGED <<_components, heap, held, frames, _target, defs, dispatcher>>

\* value(*args, **kwargs) on an ordinary bound method an access returned.
CallBound(a) ==
    /\ dispatcher.live
    /\ dispatcher.callee.k = "method"
    /\ LET c == dispatcher.callee.v[1]
           o == dispatcher.callee.v[2]
           pos == <<ObjVal(o)>> \o a.args
           result == CallFunction(c, pos, a.kwargs)
       IN  outcome' = Outcome("call", o, result,
                        [NoLog EXCEPT !.args = a.args, !.kwargs = a.kwargs,
                            !.invoked = <<[index |-> 1,
                                           method |-> dispatcher.callee,
                                           pos |-> pos, kw |-> a.kwargs,
                                           result |-> result]>>])
    /\ UNCHANGED <<_components, heap, held, frames, _target, _RESULTS, defs, dispatcher>>

\* host.bind(component), core.py:252-263
Bind(h, component) ==
    /\ Len(Bound(h)) < MaxComponents
    /\ heap' = [heap EXCEPT ![_components[h]] = bind(@, component)]
    /\ outcome' = Outcome("bind", h, None,
                         [NoLog EXCEPT !.args = <<ObjVal(component)>>,
                                       !.before = Bound(h)])
    /\ UNCHANGED <<_components, held, frames, _target, _RESULTS, defs, dispatcher>>

\* A faulty Unbind: the field is given a new, filtered list and the list that
\* components() handed out earlier is left as it was.
UnbindCopy(h, component_type) ==
    /\ LET new == 1 + Cardinality(DOMAIN heap)
       IN  /\ heap' = heap @@ (new :> unbind(Bound(h), 1, Bound(h),
                                             component_type))
           /\ _components' = [_components EXCEPT ![h] = new]
    /\ outcome' = Outcome("unbind", h, None,
                         [NoLog EXCEPT !.args = <<TypeVal(component_type)>>,
                                       !.before = Bound(h)])
    /\ UNCHANGED <<held, frames, _target, _RESULTS, defs, dispatcher>>

\* host.unbind(component_type), core.py:266-277
Unbind(h, component_type) ==
    /\ heap' = [heap EXCEPT
                    ![_components[h]] = unbind(@, 1, @, component_type)]
    /\ outcome' = Outcome("unbind", h, None,
                         [NoLog EXCEPT !.args = <<TypeVal(component_type)>>,
                                       !.before = Bound(h)])
    /\ UNCHANGED <<_components, held, frames, _target, _RESULTS, defs, dispatcher>>

\* host.components(), core.py:243-249; the caller keeps the list it got.
Components(h) ==
    /\ held' = [live |-> TRUE, host |-> h, list |-> components(h)]
    /\ outcome' = Outcome("components", h, ListRef(components(h)), NoLog)
    /\ UNCHANGED <<_components, heap, frames, _target, _RESULTS, defs, dispatcher>>

\* separator.join(names)
RECURSIVE join(_, _)
join(separator, names) ==
    IF Len(names) <= 1 THEN names
    ELSE <<Head(names), separator>> \o join(separator, Tail(names))

\* A faulty __repr__: the class name, whatever is bound.
__repr__Bare(h) == TextVal(<<ClassOf(h)>>)

\* A faulty __repr__: a class name that was listed already is left out.
__repr__Distinct(h) ==
    LET names == [i \in 1..Len(Bound(h)) |-> ClassOf(Bound(h)[i])]
        First(i) == \A j \in 1..(i - 1) : names[j] # names[i]
        RECURSIVE Distinct(_)
        Distinct(i) ==
            IF i > Len(names) THEN <<>>
            ELSE (IF First(i) THEN <<names[i]>> ELSE <<>>) \o Distinct(i + 1)
    IN  IF Bound(h) = <<>> THEN TextVal(<<ClassOf(h)>>)
        ELSE TextVal(<<"[", ClassOf(h), " (">> \o join("; ", Distinct(1))
                        \o <<")]">>)

\* Composition.__repr__(self), core.py:139-161: the class name when nothing is
\* bound, else '[%s (%s)]' of the class name and the '; '-joined class names
\* of the components.
__repr__(h) ==
    IF Bound(h) = <<>> THEN TextVal(<<ClassOf(h)>>)
    ELSE TextVal(<<"[", ClassOf(h), " (">>
                    \o join("; ", [i \in 1..Len(Bound(h)) |->
                                        ClassOf(Bound(h)[i])])
                    \o <<")]">>)

\* str(host): object.__str__ gives repr(host), no __str__ is defined.
Str(h) ==
    /\ outcome' = Outcome("str", h, __repr__(h), NoLog)
    /\ UNCHANGED <<_components, heap, held, frames, _target, _RESULTS, defs,
                   dispatcher>>

----------------------------------------------------------------------------
\* The propagation call step by step, as it runs when another call may run
\* between its steps: a second thread, or a composite method that makes a
\* composite call of its own.  Each step is one operation on the result table.

InFlight(t) == frames[t].pc # "idle"

\* The buffers no call in flight owns.
Leaked ==
    DOMAIN _RESULTS \ {frames[t].identifier : t \in {u \in Threads : InFlight(u)}}

\* Thread t evaluates h.item(*args, **kwargs) up to identifier =
\* decorator.start(), core.py:59-136 and 165-203.
Enter(t, h, a) ==
    /\ ~InFlight(t)
    /\ Cardinality(Leaked) < MaxLeaked
    /\ LET got == __getattribute__(h)
           methods == got.methods
           decorated == SelectSeq(methods, IsCompositeDecorator)
           identifier == NewIdentifier(_RESULTS)
           log == [NoLog EXCEPT !.methods = methods, !.owners = got.owners,
                                !.consulted = got.consulted, !.args = a.args,
                                !.kwargs = a.kwargs]
       IN  /\ got.value.k = "partial"
           /\ IF decorated = <<>>
              THEN /\ outcome' = Outcome("call", h, Raise("Exception"), log)
                   /\ UNCHANGED <<frames, _RESULTS>>
              ELSE IF ~IsCompositeDecorator(methods[1])
              THEN /\ outcome' = Outcome("call", h, Raise("AttributeError"), log)
                   /\ UNCHANGED <<frames, _RESULTS>>
              ELSE /\ _RESULTS' = start(_RESULTS, identifier)
                   /\ frames' = [frames EXCEPT ![t] =
                        [pc |-> "loop", host |-> h, identifier |-> identifier,
                         i |-> 1, value |-> None,
                         log |-> [log EXCEPT
                                    !.opened = TRUE,
                                    !.policy = defs[methods[1].v[1]].policy]]]
                   /\ UNCHANGED outcome
    /\ UNCHANGED <<_components, heap, held, _target, defs, dispatcher>>

\* Thread t runs one round of the loop, core.py:206-227: it calls the next
\* method and stores the result unless it is Ignore.
Invoke(t) ==
    /\ frames[t].pc = "loop"
    /\ LET f == frames[t]
           method == f.log.methods[f.i]
           pos == Received(method, f.host, f.log.args)
           result == CallFunction(method.v[1], pos, f.log.kwargs)
           entry == [index |-> f.i, method |-> method, pos |-> pos,
                     kw |-> f.log.kwargs, result |-> result]
           log == [f.log EXCEPT !.invoked = Append(@, entry)]
           kept == Keep(<<>>, result)
       IN  IF IsRaise(result)
           THEN /\ outcome' = Outcome("call", f.host, result, log)
                /\ frames' = [frames EXCEPT ![t] = Idle]
                /\ UNCHANGED _RESULTS
           ELSE IF kept # <<>> /\ f.identifier \notin DOMAIN _RESULTS
           THEN /\ outcome' = Outcome("call", f.host, Raise("Exception"), log)
                /\ frames' = [frames EXCEPT ![t] = Idle]
                /\ UNCHANGED _RESULTS
           ELSE /\ _RESULTS' = IF kept = <<>> THEN _RESULTS
                               ELSE store(_RESULTS, f.identifier, kept)
                /\ frames' = [frames EXCEPT ![t] =
                        [f EXCEPT !.log = log, !.i = f.i + 1,
                                  !.pc = IF f.i = Len(f.log.methods)
                                         THEN "resolve" ELSE "loop"]]
                /\ UNCHANGED outcome
    /\ UNCHANGED <<_components, heap, held, _target, defs, dispatcher>>

\* Thread t evaluates decorator.resolve(decorator.results(identifier)),
\* core.py:232-234.
Resolve(t) ==
    /\ frames[t].pc = "resolve"
    /\ LET f == frames[t]
           items == results(_RESULTS, f.identifier)
           log == [f.log EXCEPT !.passed = items, !.resolved = TRUE]
       IN  \E resolved_results \in resolve(f.log.policy, items) :
              IF IsRaise(resolved_results)
              THEN /\ outcome' = Outcome("call", f.host, resolved_results, log)
                   /\ frames' = [frames EXCEPT ![t] = Idle]
              ELSE /\ frames' = [frames EXCEPT ![t] =
                        [f EXCEPT !.pc = "clear", !.log = log,
                                  !.value = resolved_results]]
                   /\ UNCHANGED outcome
    /\ UNCHANGED <<_components, heap, held, _target, _RESULTS, defs, dispatcher>>

\* Thread t evaluates decorator.clear(identifier) and returns, core.py:238-240.
Return(t) ==
    /\ frames[t].pc = "clear"
    /\ _RESULTS' = clear(_RESULTS, frames[t].identifier)
    /\ outcome' = Outcome("call", frames[t].host, frames[t].value, frames[t].log)
    /\ frames' = [frames EXCEPT ![t] = Idle]
    /\ UNCHANGED <<_components, heap, held, _target, defs, dispatcher>>

\* The programs of the calls that overlap: the host declares the method
\* Append, the classes of the components define it undecorated or declared,
\* with functions that take the arguments they are called with, but for one
\* def item(self) that raises.
InitThreads ==
    \E p \in {"Append"} :
    \E d2 \in {Plain(TRUE, RetOf("DecoratorTesterA", p)), Plain(TRUE, Ignore)},
       d3 \in {Decorated(p, TRUE, RetOf("DecoratorTesterB", p)),
               Plain(FALSE, RetOf("DecoratorTesterB", p))} :
        Constructed(Program(Decorated(p, TRUE, RetOf("DecoratorBase", p)),
                            d2, d3), {"H"})

NextThreads ==
    \/ \E t \in Threads, h \in Hosts, a \in {NoArgs} : Enter(t, h, a)
    \/ \E t \in Threads : Invoke(t)
    \/ \E t \in Threads : Resolve(t)
    \/ \E t \in Threads : Return(t)
    \/ \E h \in Hosts, component \in {"A", "B"} : Bind(h, component)

SpecThreads == InitThreads /\ [][NextThreads]_vars

Next ==
    \/ \E h \in Hosts : Access(h)
    \/ \E a \in ArgChoices : Call(a)
    \/ \E a \in ArgChoices : CallBound(a)
    \/ \E h \in Hosts, component \in {"A", "B"} : Bind(h, component)
    \/ \E h \in Hosts, component_type \in Classes \cup {"Composition"} :
            Unbind(h, component_type)

Spec == Init /\ [][Next]_vars

\* The component lists of two hosts, H and G: the fixture's classes with their
\* sum methods, every object bound to either host (a host to itself or to the
\* other one too), and a caller that keeps the list components() returned.
InitComponents ==
    Constructed(Program(Decorated("Sum", FALSE, IntRet("DecoratorBase")),
                        Plain(FALSE, IntRet("DecoratorTesterA")),
                        Plain(FALSE, IntRet("DecoratorTesterB"))),
                {"H", "G"})

NextComponents ==
    \/ \E h \in Hosts, component \in Objects : Bind(h, component)
    \/ \E h \in Hosts, component_type \in Classes \cup {"Composition"} :
            Unbind(h, component_type)
    \/ \E h \in Hosts : Components(h)
    \/ \E h \in Hosts : Str(h)

SpecComponents == InitComponents /\ [][NextComponents]_vars

SpecPolicies == InitPolicies /\ [][Next]_vars

\* Binding graphs with cycles: two hosts H and G of the class that declares
\* the method Sum, and a component A that declares it too or defines it
\* undecorated, on functions that take any arguments; each host may be bound
\* to itself and to the other, A to either.
InitCycles ==
    \E d2 \in {Decorated("Sum", TRUE, IntRet("DecoratorTesterA")),
                Plain(TRUE, IntRet("DecoratorTesterA"))} :
        Constructed(Program(Decorated("Sum", TRUE, IntRet("DecoratorBase")),
                            d2, Absent),
                    {"H", "G"})

NextCycles ==
    \/ \E h \in Hosts : Access(h)
    \/ Call(NoArgs)
    \/ \E h \in Hosts, component \in {"H", "G", "A"} : Bind(h, component)

SpecCycles == InitCycles /\ [][NextCycles]_vars

\* Programs whose classes declare the method with different policies: the
\* host with p (or undecorated), the components with q or p, on functions
\* that take any arguments.
InitMixed ==
    \E p \in {"Sum", "Max"}, q \in {"Sum", "Max", "First"} :
    \E d1 \in {Decorated(p, TRUE, IntRet("DecoratorBase")),
                Plain(TRUE, IntRet("DecoratorBase"))},
       d2 \in {Decorated(q, TRUE, IntRet("DecoratorTesterA"))},
       d3 \in {Decorated(q, TRUE, IntRet("DecoratorTesterB")),
                Decorated(p, TRUE, IntRet("DecoratorTesterB")), Absent} :
        Constructed(Program(d1, d2, d3), {"H"})

SpecMixed == InitMixed /\ [][Next]_vars

----------------------------------------------------------------------------
\* The store loop and the reduction on their own: core.py:206-234 over the
\* results the candidates of one call returned, in call order.

\* What a candidate's method may return: Ignore, None, a number (0, positive,
\* negative; 1.0 and 2.0 of the fixtures are the numbers 1 and 2, division is
\* exact), a string, a list or a dict.
Returned ==
    {Ignore, None, IntVal(0), IntVal(1), IntVal(2), IntVal(5), IntVal(10),
     IntVal(-5), StrVal("A"), StrVal("B"),
     ListVal(<<StrVal("a"), StrVal("b")>>),
     ListVal(<<StrVal("x"), StrVal("y")>>),
     DictVal(<<<<StrVal("foo"), IntVal(1)>>>>),
     DictVal(<<<<StrVal("bar"), IntVal(1)>>>>),
     DictVal(<<<<StrVal("bar"), IntVal(2)>>, <<StrVal("foo"), IntVal(2)>>>>)}

\* The results of the host and of up to MaxComponents components.
ReturnedSeqs ==
    UNION {[1..n -> Returned] : n \in 0..(MaxComponents + 1)}

\* core.py:215-227 over the results in call order: what decorator.store has
\* appended when the loop ends.
RECURSIVE StoreEach(_, _)
StoreEach(returned, stored) ==
    IF returned = <<>> THEN stored
    ELSE StoreEach(Tail(returned), Keep(stored, Head(returned)))

InitResolve ==
    \E returned \in ReturnedSeqs :
        /\ _components = [h \in {"H"} |-> Allocated(h)]
        /\ heap = [n \in {Allocated("H")} |-> <<>>]
        /\ held = NoReference
        /\ frames = [t \in Threads |-> Idle]
        /\ _target = [h \in {"H"} |-> h]
        /\ _RESULTS = [n \in {} |-> <<>>]
        /\ defs = Program(Absent, Absent, Absent)
        /\ dispatcher = NoDispatcher
        /\ outcome = Outcome("returned", "-", None,
                        [NoLog EXCEPT !.returned = returned])

\* decorator.resolve(decorator.results(identifier)) for a decorator of class
\* `policy`, core.py:232-234, after the loop stored the results.
Reduce(policy) ==
    /\ outcome.op = "returned"
    /\ LET passed == StoreEach(outcome.log.returned, <<>>)
       IN  \E value \in resolve(policy, passed) :
            outcome' = Outcome("resolve", "-", value,
                        [outcome.log EXCEPT !.policy = policy,
                                            !.passed = passed,
                                            !.resolved = TRUE])
    /\ UNCHANGED <<_components, heap, held, frames, _target, _RESULTS, defs,
                   dispatcher>>

NextResolve ==
    \E policy \in {"Extend", "First", "Last", "Average", "Min", "Max", "Range",
                    "Update", "UpdateDict", "Append"} : Reduce(policy)

SpecResolve == InitResolve /\ [][NextResolve]_vars

----------------------------------------------------------------------------
\* Vocabulary of the properties.

\* Object o resolves the followed name (on its class or a base class).
Defines(o) == DefiningClass(o) # "-"

\* What the class of h (or a base class) defines under the name.
Definition(o) == IF Defines(o) THEN defs[DefiningClass(o)] ELSE Absent

\* The candidates of an access on h: the host, then the bound components in
\* binding order.
Candidates(h) == <<h>> \o Bound(h)

Least(S) == CHOOSE x \in S : \A y \in S : x <= y

Contributes(entry) == entry.result # Ignore

\* The results of the invoked methods that are not Ignore, in call order.
Contributions(invoked) ==
    LET kept == SelectSeq(invoked, Contributes)
    IN  [i \in 1..Len(kept) |-> kept[i].result]

\* The last operation was an access on h / a call made through h.
Accessed(h) == outcome.op = "access" /\ outcome.host = h
Called(h) == outcome.op = "call" /\ outcome.host = h
\* The last operation was a propagation call on h that reached its loop.
Propagated(h) == Called(h) /\ outcome.log.opened

NoArguments == outcome.log.args = <<>> /\ outcome.log.kwargs = {}

----------------------------------------------------------------------------
\* C1: when the host itself resolves the name to something that is no
\* declared composite method (a plain value or an undecorated method), the
\* access returns the host's own value, no candidate of the composites list is
\* consulted and no method is collected; calling what was returned invokes the
\* host's own function only, on the host, and gives what it returns.
C1_HostAttributeReturnedAsIs ==
    \A h \in Hosts :
        Definition(h).kind \in {"value", "plain"} =>
            /\ Accessed(h) =>
                /\ outcome.value = IF Definition(h).kind = "value"
                                   THEN Definition(h).ret
                                   ELSE BoundMethod(DefiningClass(h), h)
                /\ outcome.log.consulted = <<>>
                /\ outcome.log.methods = <<>>
            /\ Called(h) =>
                /\ Len(outcome.log.invoked) = 1
                /\ outcome.log.invoked[1].method = BoundMethod(DefiningClass(h), h)
                /\ outcome.log.invoked[1].pos[1] = ObjVal(h)
                /\ NoArguments => outcome.value = Definition(h).ret

\* The host's undecorated def item(self) returns 1, a bound component's
\* same-named method returns 2, and the call gave 1.
C1_Witness ==
    /\ Called("H") /\ NoArguments
    /\ defs["DecoratorBase"] = Plain(FALSE, IntVal(1))
    /\ defs["DecoratorTesterB"] = Plain(FALSE, IntVal(2))
    /\ Bound("H") = <<"B">>
    /\ outcome.value = IntVal(1)

C3_SumOfTheComponentResults ==
    \A h \in Hosts :
        (/\ Propagated(h) /\ NoArguments
         /\ Definition(h).kind = "decorated" /\ Definition(h).policy = "Sum"
         /\ outcome.log.owners = <<h, "A", "B">>
         /\ Definition("A").ret.k = "int" /\ Definition("B").ret.k = "int")
        => outcome.value = IntVal(Definition("A").ret.v + Definition("B").ret.v)

\* C4: a composite call whose collected methods mix a method declared with a
\* policy and a same-named method declared without one ends with an error.
C4_MixedMethodSetFails ==
    (/\ outcome.op = "call"
     /\ \E i \in 1..Len(outcome.log.methods) :
            outcome.log.methods[i].k = "decorator"
     /\ \E i \in 1..Len(outcome.log.methods) :
            outcome.log.methods[i].k = "method")
    => IsRaise(outcome.value)

\* seq without its j-th element.
Without(seq, j) == SubSeq(seq, 1, j - 1) \o SubSeq(seq, j + 1, Len(seq))

\* The values a propagation call of h over `methods` may end with.
Endings(h, methods, args, kwargs) ==
    {end.value :
        end \in _propogate_call(h, methods, args, kwargs, [n \in {} |-> <<>>])}

\* C5: a result equal to Ignore is discarded and never reaches the policy, and
\* a bound component whose implementation returns Ignore does not change what
\* the call gives: for every policy and every position of that component, the
\* call ends as the call over the method set without that component's method.
C5_IgnoredResultContributesNothing ==
    \A h \in Hosts :
        Propagated(h) =>
            LET log == outcome.log
            IN  /\ \A i \in 1..Len(log.passed) : log.passed[i] # Ignore
                /\ log.resolved =>
                        outcome.value
                            \in resolve(log.policy, Contributions(log.invoked))
                /\ \A j \in 2..Len(log.methods) :
                        Definition(log.owners[j]).ret = Ignore =>
                            /\ outcome.value
                                \in Endings(h, Without(log.methods, j),
                                            log.args, log.kwargs)
                            /\ Endings(h, log.methods, log.args, log.kwargs)
                                = Endings(h, Without(log.methods, j),
                                          log.args, log.kwargs)

\* A, bound before B, returned Ignore, and the Sum call gave the host's 1 plus
\* B's 2.
C5_Witness ==
    /\ Propagated("H") /\ outcome.log.resolved
    /\ outcome.log.policy = "Sum"
    /\ outcome.log.owners = <<"H", "A", "B">>
    /\ outcome.log.invoked[2].result = Ignore
    /\ outcome.log.passed = <<IntVal(1), IntVal(2)>>
    /\ outcome.value = IntVal(3)

\* C6: the wrapper.  The host declares the method Extend and returns Ignore,
\* A then B are bound and implement it without a declaration, returning
\* ['a', 'b'] and ['x', 'y']: the call H.M() succeeds with
\* ['a', 'b', 'x', 'y'].
C6_WrapperExtendsTheComponentResults ==
    \A h \in Hosts :
        (/\ Called(h) /\ NoArguments
         /\ Definition(h).kind = "decorated" /\ Definition(h).policy = "Extend"
         /\ Definition(h).ret = Ignore
         /\ outcome.log.owners = <<h, "A", "B">>
         /\ Definition("A").kind = "plain" /\ Definition("B").kind = "plain"
         /\ Definition("A").ret = ListRet("DecoratorTesterA")
         /\ Definition("B").ret = ListRet("DecoratorTesterB"))
        => outcome.value =
                ListVal(<<StrVal("a"), StrVal("b"), StrVal("x"), StrVal("y")>>)

\* C7: in a propagation call every collected method is invoked on its own
\* owner and receives exactly the caller's positional and keyword arguments.
C7_InvokedOnOwnerWithTheCallerArguments ==
    \A h \in Hosts :
        Propagated(h) =>
            \A i \in 1..Len(outcome.log.invoked) :
                /\ outcome.log.invoked[i].pos =
                        <<ObjVal(outcome.log.owners[i])>> \o outcome.log.args
                /\ outcome.log.invoked[i].kw = outcome.log.kwargs

\* The candidates of h that resolve the name to a non-callable value.
NonCallables(h) ==
    {i \in 1..Len(Candidates(h)) : Definition(Candidates(h)[i]).kind = "value"}

\* C8: when the name is no ordinary attribute of the host, the candidates are
\* scanned host first, then the components in binding order, and the first
\* one that resolves the name to a non-callable value decides: the access
\* returns that value, no later candidate is consulted, and nothing is
\* combined, whatever callables earlier candidates gave.
C8_FirstNonCallableWins ==
    \A h \in Hosts :
        (/\ Accessed(h)
         /\ Definition(h).kind \in {"absent", "decorated"}
         /\ NonCallables(h) # {})
        => LET first == Least(NonCallables(h))
           IN  /\ outcome.value = Definition(Candidates(h)[first]).ret
               /\ outcome.log.consulted = SubSeq(Candidates(h), 1, first)
               /\ ~dispatcher.live

\* The host declares the method, A bound first defines it as a method, B
\* bound second holds a plain value: the access returned B's value although
\* two methods had been collected.
C8_Witness ==
    /\ Accessed("H")
    /\ Bound("H") = <<"A", "B">>
    /\ Definition("H").kind = "decorated" /\ Definition("A").kind = "plain"
    /\ outcome.value = PropVal("DecoratorTesterB")
    /\ Len(outcome.log.methods) = 2

C10_EveryAccessResolvesAnew ==
    /\ [](\A h \in Hosts :
            (Accessed(h) /\ outcome.value.k = "partial") =>
                /\ outcome.log.consulted = Candidates(h)
                /\ outcome.log.owners = SelectSeq(Candidates(h), Defines)
                /\ dispatcher.live /\ dispatcher.callee = outcome.value
                /\ dispatcher.owners = outcome.log.owners)
    /\ [][\A h \in Hosts :
            (Accessed(h) /\ outcome'.op = "call" /\ outcome'.log.opened) =>
                /\ outcome'.log.owners = SelectSeq(Candidates(h), Defines)
                /\ outcome'.log.methods = outcome.log.methods
                /\ outcome'.log.resolved =>
                        Len(outcome'.log.invoked) = Len(outcome'.log.owners)]_vars

\* Only B is bound when the method is accessed and called: the Sum call ran
\* over the host and B and gave 1 + 2.
C10_Witness ==
    /\ Propagated("H") /\ outcome.log.resolved
    /\ Bound("H") = <<"B">>
    /\ outcome.log.owners = <<"H", "B">>
    /\ Len(outcome.log.invoked) = 2
    /\ outcome.value = IntVal(3)

\* The elements of a sequence.
Elements(seq) == {seq[i] : i \in 1..Len(seq)}

\* The last operation on h was bind / unbind.
BoundTo(h) == outcome.op = "bind" /\ outcome.host = h
UnboundFrom(h) == outcome.op = "unbind" /\ outcome.host = h

\* C11: when H.bind(C) is followed by H.unbind(type(C)), the component list no
\* longer holds C; the access that follows an unbind collects no method of an
\* instance of the unbound type, and the call that follows the access runs
\* over the collected methods only and reduces their results alone.
C11_UnbindReversesBind ==
    /\ [][\A h \in Hosts :
            (/\ BoundTo(h)
             /\ outcome'.op = "unbind" /\ outcome'.host = h
             /\ outcome'.log.args =
                    <<TypeVal(ClassOf(outcome.log.args[1].v))>>)
            => outcome.log.args[1].v \notin Elements(Bound(h)')]_vars
    /\ [][\A h \in Hosts :
            (UnboundFrom(h) /\ outcome'.op = "access" /\ outcome'.host = h)
            => \A o \in Elements(outcome'.log.consulted)
                        \cup Elements(outcome'.log.owners) :
                    o = h \/ ~isinstance(o, outcome.log.args[1].v)]_vars
    /\ [][\A h \in Hosts :
            (Accessed(h) /\ outcome'.op = "call" /\ outcome'.log.opened)
            => /\ \A i \in 1..Len(outcome'.log.invoked) :
                    outcome'.log.invoked[i].method = outcome.log.methods[i]
               /\ outcome'.log.resolved =>
                    outcome'.value
                        \in resolve(outcome'.log.policy,
                                    Contributions(outcome'.log.invoked))]_vars

\* A and B were bound and unbind(DecoratorTesterB) left A alone.
C11_Witness ==
    /\ UnboundFrom("H")
    /\ outcome.log.args = <<TypeVal("DecoratorTesterB")>>
    /\ outcome.log.before = <<"A", "B">>
    /\ Bound("H") = <<"A">>

\* The runtime type of o is t or a subtype of t.
InstanceOf(o, t) == t \in Elements(Mro(ClassOf(o)))

C13_BindAppends ==
    [][\A h \in Hosts :
        (outcome'.op = "bind" /\ outcome'.host = h) =>
            /\ Bound(h)' = Bound(h) \o <<outcome'.log.args[1].v>>
            /\ Len(Bound(h)') = Len(Bound(h)) + 1
            /\ outcome'.value = None
            /\ \A g \in Hosts \ {h} : Bound(g)' = Bound(g)]_vars

\* H was bound to itself, twice.
C13_Witness ==
    /\ BoundTo("H")
    /\ outcome.log.args = <<ObjVal("H")>>
    /\ outcome.log.before = <<"H">>
    /\ Bound("H") = <<"H", "H">>

\* C14: the list components() returned is the host's own list: whatever bind
\* and unbind do later, the list a caller kept holds the host's current bound
\* sequence; and a bind or unbind on one host leaves the list of every other
\* host as it was, also when a component is bound to both.
C14_ComponentsIsTheLiveList ==
    /\ [](held.live =>
            /\ held.list = components(held.host)
            /\ heap[held.list] = Bound(held.host))
    /\ [][\A h \in Hosts :
            (outcome'.op \in {"bind", "unbind"} /\ outcome'.host = h) =>
                \A g \in Hosts \ {h} : Bound(g)' = Bound(g)]_vars

\* A caller keeps the list of H; B is bound to H and to G; unbinding B's class
\* from H shows in the kept list and leaves B bound to G.
C14_Witness ==
    /\ held.live /\ held.host = "H"
    /\ UnboundFrom("H")
    /\ outcome.log.before = <<"A", "B">>
    /\ heap[held.list] = <<"A">>
    /\ Bound("G") = <<"B">>

\* C15: whenever no propagation call is in flight the result table holds no
\* buffer: a call removes the buffer it opened, whether it returns a value or
\* ends with an exception of a method or of the reduction.
C15_NoBufferOutsideACall ==
    (\A t \in Threads : ~InFlight(t)) => DOMAIN _RESULTS = {}

Reduced(policy) == outcome.op = "resolve" /\ outcome.log.policy = policy

\* The results of a call that are not Ignore, in call order.
NotIgnored(returned) ==
    LET Counts(result) == result # Ignore IN SelectSeq(returned, Counts)

\* The number of elements of the first n lists of a sequence of lists.
RECURSIVE LenUpTo(_, _)
LenUpTo(lists, n) ==
    IF n = 0 THEN 0 ELSE LenUpTo(lists, n - 1) + Len(lists[n].v)

C19_FirstAndLastOfTheResults ==
    LET kept == NotIgnored(outcome.log.returned)
    IN  /\ Reduced("First") =>
            outcome.value = IF kept = <<>> THEN None ELSE kept[1]
        /\ Reduced("Last") =>
            outcome.value = IF kept = <<>> THEN None ELSE kept[Len(kept)]

\* The host returned Ignore, the components 10 then 5: First gave 10.
C19_Witness ==
    /\ Reduced("First")
    /\ outcome.log.returned = <<Ignore, IntVal(10), IntVal(5)>>
    /\ outcome.value = IntVal(10)

C21_MinMaxRangeNeedAResult ==
    LET numbers == NotIgnored(outcome.log.returned)
        values == {numbers[i].v : i \in 1..Len(numbers)}
    IN  /\ (outcome.op = "resolve"
                /\ outcome.log.policy \in {"Min", "Max", "Range"}
                /\ numbers = <<>>) =>
            outcome.value = Raise("ValueError")
        /\ (Reduced("Range") /\ numbers # <<>>
                /\ Kinds(numbers) = {"int"}) =>
            /\ outcome.value.k = "int"
            /\ \E low, high \in values :
                /\ \A n \in values : low <= n /\ n <= high
                /\ outcome.value.v = high - low
            /\ Len(numbers) = 1 => outcome.value = IntVal(0)

\* Range over three candidates that all returned Ignore ended with ValueError.
C21_Witness ==
    /\ Reduced("Range")
    /\ outcome.log.returned = <<Ignore, Ignore, Ignore>>
    /\ outcome.log.passed = <<>>
    /\ outcome.value = Raise("ValueError")

\* The results that hold key `key`, as indexes into dicts.
Holding(dicts, key) ==
    {n \in 1..Len(dicts) : \E j \in 1..Len(dicts[n].v) : dicts[n].v[j][1] = key}

\* The place of the first insertion of `key`: result number, then position.
FirstSet(dicts, key) ==
    LET n == Least(Holding(dicts, key))
        j == Least({i \in 1..Len(dicts[n].v) : dicts[n].v[i][1] = key})
    IN  <<n, j>>

\* C22: with policy Update or UpdateDict over results that are dicts, the
\* value is a dict that holds exactly the keys of the results, each once, each
\* with the value of the last result in call order that holds it, and the
\* keys stand in the order of their first insertion.
C22_UpdateMergesLeftToRight ==
    LET dicts == NotIgnored(outcome.log.returned)
        merged == outcome.value.v
        keys == UNION {{dicts[n].v[j][1] : j \in 1..Len(dicts[n].v)} :
                            n \in 1..Len(dicts)}
    IN  (outcome.op = "resolve"
            /\ outcome.log.policy \in {"Update", "UpdateDict"}
            /\ Kinds(dicts) \subseteq {"dict"}) =>
            /\ outcome.value.k = "dict"
            /\ {merged[i][1] : i \in 1..Len(merged)} = keys
            /\ Len(merged) = Cardinality(keys)
            /\ \A i \in 1..Len(merged) :
                LET last == dicts[CHOOSE n \in Holding(dicts, merged[i][1]) :
                                \A m \in Holding(dicts, merged[i][1]) : m <= n]
                IN  \E j \in 1..Len(last.v) : last.v[j] = merged[i]
            /\ \A i, j \in 1..Len(merged) :
                i < j =>
                    LET a == FirstSet(dicts, merged[i][1])
                        b == FirstSet(dicts, merged[j][1])
                    IN  a[1] < b[1] \/ (a[1] = b[1] /\ a[2] < b[2])

\* {foo: 1}, then {bar: 1}, then {bar: 2, foo: 2} gave {foo: 2, bar: 2}.
C22_Witness ==
    /\ Reduced("Update")
    /\ outcome.log.returned
            = <<DictVal(<<<<StrVal("foo"), IntVal(1)>>>>),
                DictVal(<<<<StrVal("bar"), IntVal(1)>>>>),
                DictVal(<<<<StrVal("bar"), IntVal(2)>>,
                          <<StrVal("foo"), IntVal(2)>>>>)>>
    /\ outcome.value
            = DictVal(<<<<StrVal("foo"), IntVal(2)>>,
                        <<StrVal("bar"), IntVal(2)>>>>)

Shown(h) == outcome.op = "str" /\ outcome.host = h

\* The class names between the parentheses of a representation, in order.
Named(text) == [i \in 1..((Len(text) - 3) \div 2) |-> text[2 + 2 * i]]

\* C24: str(h) is the class name of h when nothing is bound to h (before any
\* bind and after the last component is unbound); otherwise it is '[', the
\* class name of h, ' (', the class names of the bound components in binding
\* order with a separator between two of them, and ')]'.
C24_RepresentationNamesTheComponents ==
    \A h \in Hosts :
        Shown(h) =>
            LET text == outcome.value.v
                n == Len(Bound(h))
            IN  /\ outcome.value.k = "text"
                /\ n = 0 => text = <<ClassOf(h)>>
                /\ n > 0 =>
                    /\ Len(text) = 3 + 2 * n
                    /\ text[1] = "[" /\ text[2] = ClassOf(h) /\ text[3] = " ("
                    /\ \A i \in 1..n :
                        /\ text[2 + 2 * i] = ClassOf(Bound(h)[i])
                        /\ text[3 + 2 * i] = IF i < n THEN "; " ELSE ")]"

\* A DecoratorBase host with one DecoratorTesterB bound.
C24_Witness ==
    /\ Shown("H")
    /\ Bound("H") = <<"B">>
    /\ outcome.value
        = TextVal(<<"[", "DecoratorBase", " (", "DecoratorTesterB", ")]">>)

\* C25 as stated: a representation names no class twice, whatever is bound.
C25_DistinctTypeNames ==
    \A h \in Hosts :
        (Shown(h) /\ Bound(h) # <<>>) =>
            LET names == Named(outcome.value.v)
            IN  \A i, j \in 1..Len(names) : i # j => names[i] # names[j]

\* C25, as the code has it: the representation names a class once for every
\* bound component of that class, so as often as components of it are bound.
C25_EveryComponentIsNamed ==
    \A h \in Hosts :
        (Shown(h) /\ Bound(h) # <<>>) =>
            LET names == Named(outcome.value.v)
            IN  \A c \in Classes :
                    Cardinality({i \in 1..Len(names) : names[i] = c})
                        = Cardinality({i \in 1..Len(Bound(h)) :
                                            ClassOf(Bound(h)[i]) = c})

\* The same component is bound twice and its class is named twice.
C25_Witness ==
    /\ Shown("H")
    /\ Bound("H") = <<"A", "A">>
    /\ outcome.value
        = TextVal(<<"[", "DecoratorBase", " (", "DecoratorTesterA", "; ",
                    "DecoratorTesterA", ")]">>)

\* The policies the decorators among `methods` were declared with.
PoliciesOf(methods) ==
    {defs[methods[i].v[1]].policy :
        i \in {j \in 1..Len(methods) : IsCompositeDecorator(methods[j])}}

\* C26: a propagation call over methods declared with more than one policy
\* ends with an exception and returns no reduced value.
C26_MixedPoliciesAreRejected ==
    \A h \in Hosts :
        (Called(h) /\ Cardinality(PoliciesOf(outcome.log.methods)) > 1) =>
            IsRaise(outcome.value)

C28_EveryMethodIsInvokedOnce ==
    \A h \in Hosts :
        (Propagated(h) /\ ~IsRaise(outcome.value)) =>
            /\ Len(outcome.log.invoked) = Len(outcome.log.methods)
            /\ \A i \in 1..Len(outcome.log.methods) :
                /\ outcome.log.invoked[i].index = i
                /\ outcome.log.invoked[i].method = outcome.log.methods[i]
            /\ outcome.log.resolved

\* A call declared First over the host and two components: the first result
\* is the value, and all three methods were called.
C28_Witness ==
    /\ Propagated("H")
    /\ outcome.log.policy = "First"
    /\ Len(outcome.log.methods) = 3
    /\ Len(outcome.log.invoked) = 3
    /\ Len(outcome.log.passed) = 3
    /\ outcome.value = outcome.log.passed[1]

\* C29: the dispatcher an access returned holds the methods collected by that
\* access; binding and unbinding leave it as it is, and calling it calls
\* these methods, in their order, whatever is bound by then.
C29_DispatcherKeepsTheMethodsOfTheAccess ==
    [][/\ (outcome'.op = "access" /\ dispatcher'.live
                /\ dispatcher'.callee.k = "partial") =>
            dispatcher'.callee.v[2] = __getattribute__(outcome'.host).methods
       /\ outcome'.op \in {"bind", "unbind"} => dispatcher' = dispatcher
       /\ (outcome'.op = "call" /\ dispatcher.callee.k = "partial") =>
            /\ dispatcher' = dispatcher
            /\ outcome'.log.methods = dispatcher.callee.v[2]
            /\ Len(outcome'.log.invoked) <= Len(dispatcher.callee.v[2])
            /\ \A i \in 1..Len(outcome'.log.invoked) :
                outcome'.log.invoked[i].method = dispatcher.callee.v[2][i]
            /\ ~IsRaise(outcome'.value) =>
                Len(outcome'.log.invoked) = Len(dispatcher.callee.v[2])]_vars

\* The dispatcher was taken when nothing was bound; two components that take
\* part in a fresh access were bound before it was called: the call returned
\* after calling the host's method alone.
C29_Witness ==
    /\ Propagated("H")
    /\ ~IsRaise(outcome.value)
    /\ Len(outcome.log.invoked) = 1
    /\ Bound("H") = <<"A", "B">>
    /\ Len(__getattribute__("H").methods) = 3

\* How often x stands in seq.
Count(seq, x) == Cardinality({i \in 1..Len(seq) : seq[i] = x})

\* C30: with hosts bound to themselves and to each other, an access on h
\* consults exactly h and then the components of h, 1 + |components|
\* candidates, each as often as it stands in the list and no component of a
\* component; the call of what the access returned runs one method for each
\* of these candidates and returns, so a host bound to itself runs its method
\* once more for every time it is bound (every method here returns 1 and the
\* policy is Sum: the value is the number of methods run).
C30_ResolutionIsShallowAndFinite ==
    \A h \in Hosts :
        /\ Accessed(h) =>
            /\ outcome.log.consulted = Candidates(h)
            /\ Len(outcome.log.consulted) = 1 + Len(Bound(h))
            /\ \A o \in Objects :
                Count(outcome.log.owners, o)
                    = IF Defines(o) THEN Count(Candidates(h), o) ELSE 0
        /\ Propagated(h) =>
            /\ ~IsRaise(outcome.value)
            /\ Len(outcome.log.invoked) = Len(outcome.log.owners)
            /\ Len(outcome.log.owners) = Len(outcome.log.consulted)
            /\ outcome.value = IntVal(Len(outcome.log.consulted))

\* H is bound to itself and to G, G is bound to H and has A: the call on H ran
\* H's method twice and G's once, and nothing of A.
C30_Witness ==
    /\ Propagated("H")
    /\ Bound("H") = <<"H", "G">>
    /\ Bound("G") = <<"H", "A">>
    /\ outcome.log.owners = <<"H", "H", "G">>
    /\ Len(outcome.log.invoked) = 3
    /\ outcome.value = IntVal(3)

====
